---------------------------- MODULE Spec2Model ----------------------------
(***************************************************************************)
(* A model of the EEG AI analysis server (src/app.py): the two POST        *)
(* handlers /api/analyze and /api/question, the Groq gateway and its       *)
(* fallbacks, the reply parser, the two offline classifiers and the stress *)
(* function.                                                               *)
(*                                                                         *)
(* Numbers.  A series is a sequence of integers.  An average sum(xs) /     *)
(* len(xs) is kept exact as the fraction [num, den]; the comparisons of    *)
(* the code against the integer thresholds 30, 40, 60, 70 are comparisons  *)
(* of num against threshold * den (exact for a double as long as the       *)
(* series is shorter than 10^13 samples).                                  *)
(*                                                                         *)
(* Text.  A text is a sequence of string segments; a Groq reply is a       *)
(* sequence of lines, each line a label prefix and the text after it.      *)
(* A question is a sequence of one-character strings, so that lower() and  *)
(* the substring tests of answer_local are computed, not assumed.          *)
(*                                                                         *)
(* The modelled requests carry JSON bodies whose series hold numbers and   *)
(* whose question is a string; with those the except clause of analyze_eeg *)
(* (lines 70-77) and of ask_question (lines 101-104) cannot be entered,    *)
(* because analyze_with_groq and answer_with_groq catch every exception of *)
(* the gateway themselves.                                                 *)
(***************************************************************************)
EXTENDS Integers, Sequences, FiniteSets, TLC

VARIABLES USE_AI, GROQ_API_KEY, pc, route, data, outcome, resp, calls,
          out_stress, out_local, out_simple

vars == <<USE_AI, GROQ_API_KEY, pc, route, data, outcome, resp, calls,
          out_stress, out_local, out_simple>>

---------------------------------------------------------------------------
(* Bounds of the model *)

\* longest attention/meditation series given to the classifiers
MaxLen == 2
\* longest attention/meditation series of an /api/analyze request
MaxReqLen == 2
\* most lines in a reply of the provider
MaxLines == 2

\* sample values of the classifier inputs: the thresholds' neighbours
Levels == {20, 39, 60, 61, 70, 71, 80}
\* sample values of the series of a request
ReqLevels == {20, 65, 80}

SeqsUpTo(S, n) == UNION {[1..k -> S] : k \in 0..n}

Series == SeqsUpTo(Levels, MaxLen)
ReqSeries == SeqsUpTo(ReqLevels, MaxReqLen)
BlinkSeries == {<< >>, <<50>>}

---------------------------------------------------------------------------
(* Statistics *)

RECURSIVE sum(_)
sum(xs) == IF xs = << >> THEN 0 ELSE Head(xs) + sum(Tail(xs))

RECURSIVE sumsq(_)
sumsq(xs) == IF xs = << >> THEN 0 ELSE Head(xs) * Head(xs) + sumsq(Tail(xs))

\* sum(xs) / len(xs), exact
mean(xs) == [num |-> sum(xs), den |-> Len(xs)]

\* sum(blink_history) / len(blink_history) if blink_history else 0
mean_or_zero(xs) == IF xs = << >> THEN [num |-> 0, den |-> 1] ELSE mean(xs)

\* avg > k and avg < k for an integer k
GT(avg, k) == avg.num > k * avg.den
LT(avg, k) == avg.num < k * avg.den

\* int(avg) of a non-negative average
int(avg) == avg.num \div avg.den

\* calculate_variance returns the population standard deviation, the square
\* root of (n * sum(x^2) - sum(x)^2) / n^2; the model keeps that square.
calculate_variance(xs) ==
    IF xs = << >> \/ Len(xs) < 2
    THEN [num |-> 0, den |-> 1]
    ELSE [num |-> Len(xs) * sumsq(xs) - sum(xs) * sum(xs),
          den |-> Len(xs) * Len(xs)]

---------------------------------------------------------------------------
(* The stress function and the offline classifiers *)

\* variant: the first threshold not strict (avg_attention >= 70)
CalculateStressLevelLoose(avg_attention, avg_meditation) ==
    IF ~LT(avg_attention, 70) /\ LT(avg_meditation, 40) THEN 75
    ELSE IF LT(avg_attention, 40) /\ GT(avg_meditation, 70) THEN 25
    ELSE IF GT(avg_attention, 60) /\ GT(avg_meditation, 60) THEN 30
    ELSE 50

calculate_stress_level(avg_attention, avg_meditation) ==
    IF GT(avg_attention, 70) /\ LT(avg_meditation, 40) THEN 75
    ELSE IF LT(avg_attention, 40) /\ GT(avg_meditation, 70) THEN 25
    ELSE IF GT(avg_attention, 60) /\ GT(avg_meditation, 60) THEN 30
    ELSE 50

\* the labels the prompt lets the provider choose from (line 125)
MentalStateLabels ==
    {"Stressed", "Relaxed", "Happy", "Sad", "Focused", "Tired", "Neutral"}

Result(mental_state, analysis, recommendation, stress_level) ==
    [mentalState |-> mental_state, analysis |-> analysis,
     recommendation |-> recommendation, stressLevel |-> stress_level]

\* variant: the Tired rule at both averages < 40
AnalyzeLocalTired40(attention_history, meditation_history, blink_history) ==
    LET avg_attention == mean(attention_history)
        avg_meditation == mean(meditation_history)
        a == ToString(int(avg_attention))
        m == ToString(int(avg_meditation))
        stress_level == calculate_stress_level(avg_attention, avg_meditation)
    IN  IF GT(avg_attention, 70) /\ LT(avg_meditation, 40)
        THEN Result("Stressed", <<"Your attention is very high (", a, "%) while meditation is low (", m, "%).">>,
                    <<"Take a 5-10 minute break.">>, stress_level)
        ELSE IF LT(avg_attention, 40) /\ GT(avg_meditation, 70)
        THEN Result("Relaxed", <<"High meditation (", m, "%) with lower attention (", a, "%).">>,
                    <<"Great relaxation!">>, stress_level)
        ELSE IF GT(avg_attention, 60) /\ GT(avg_meditation, 60)
        THEN Result("Focused", <<"Excellent balance! Both attention (", a, "%) and meditation (", m, "%) are high.">>,
                    <<"You're in peak mental performance!">>, stress_level)
        ELSE IF LT(avg_attention, 40) /\ LT(avg_meditation, 40)
        THEN Result("Tired", <<"Both attention (", a, "%) and meditation (", m, "%) are low, indicating mental fatigue.">>,
                    <<"Take a 15-20 minute power nap, get fresh air, or do light exercise.">>, stress_level)
        ELSE Result("Neutral", <<"Balanced neutral state. Attention: ", a, "%, Meditation: ", m, "%.">>,
                    <<"You can shift toward focus or relaxation as needed. Stay flexible!">>, stress_level)

\* variant: att_variance is read, a standard deviation above 20 gives
\* Stressed with stress 85 before Neutral
AnalyzeLocalHighVariance(attention_history, meditation_history, blink_history) ==
    LET avg_attention == mean(attention_history)
        avg_meditation == mean(meditation_history)
        att_variance == calculate_variance(attention_history)
        a == ToString(int(avg_attention))
        m == ToString(int(avg_meditation))
        stress_level == calculate_stress_level(avg_attention, avg_meditation)
    IN  IF GT(avg_attention, 70) /\ LT(avg_meditation, 40)
        THEN Result("Stressed", <<"Your attention is very high (", a, "%) while meditation is low (", m, "%).">>,
                    <<"Take a 5-10 minute break.">>, stress_level)
        ELSE IF LT(avg_attention, 40) /\ GT(avg_meditation, 70)
        THEN Result("Relaxed", <<"High meditation (", m, "%) with lower attention (", a, "%).">>,
                    <<"Great relaxation!">>, stress_level)
        ELSE IF GT(avg_attention, 60) /\ GT(avg_meditation, 60)
        THEN Result("Focused", <<"Excellent balance! Both attention (", a, "%) and meditation (", m, "%) are high.">>,
                    <<"You're in peak mental performance!">>, stress_level)
        ELSE IF LT(avg_attention, 30) /\ LT(avg_meditation, 30)
        THEN Result("Tired", <<"Both attention (", a, "%) and meditation (", m, "%) are low, indicating mental fatigue.">>,
                    <<"Take a 15-20 minute power nap, get fresh air, or do light exercise.">>, stress_level)
        ELSE IF GT(att_variance, 400)
        THEN Result("Stressed", <<"High variability in attention.">>,
                    <<"Take a 5-10 minute break.">>, 85)
        ELSE Result("Neutral", <<"Balanced neutral state. Attention: ", a, "%, Meditation: ", m, "%.">>,
                    <<"You can shift toward focus or relaxation as needed. Stay flexible!">>, stress_level)

analyze_local(attention_history, meditation_history, blink_history) ==
    LET avg_attention == mean(attention_history)
        avg_meditation == mean(meditation_history)
        avg_blink == mean_or_zero(blink_history)
        att_variance == calculate_variance(attention_history)
        a == ToString(int(avg_attention))
        m == ToString(int(avg_meditation))
        stress_level == calculate_stress_level(avg_attention, avg_meditation)
    IN  IF GT(avg_attention, 70) /\ LT(avg_meditation, 40)
        THEN Result("Stressed", <<"Your attention is very high (", a, "%) while meditation is low (", m, "%).">>,
                    <<"Take a 5-10 minute break.">>, stress_level)
        ELSE IF LT(avg_attention, 40) /\ GT(avg_meditation, 70)
        THEN Result("Relaxed", <<"High meditation (", m, "%) with lower attention (", a, "%).">>,
                    <<"Great relaxation!">>, stress_level)
        ELSE IF GT(avg_attention, 60) /\ GT(avg_meditation, 60)
        THEN Result("Focused", <<"Excellent balance! Both attention (", a, "%) and meditation (", m, "%) are high.">>,
                    <<"You're in peak mental performance!">>, stress_level)
        ELSE IF LT(avg_attention, 30) /\ LT(avg_meditation, 30)
        THEN Result("Tired", <<"Both attention (", a, "%) and meditation (", m, "%) are low, indicating mental fatigue.">>,
                    <<"Take a 15-20 minute power nap, get fresh air, or do light exercise.">>, stress_level)
        ELSE Result("Neutral", <<"Balanced neutral state. Attention: ", a, "%, Meditation: ", m, "%.">>,
                    <<"You can shift toward focus or relaxation as needed. Stay flexible!">>, stress_level)

analyze_local_simple(avg_attention, avg_meditation, avg_blink) ==
    LET stress_level == calculate_stress_level(avg_attention, avg_meditation)
    IN  IF GT(avg_attention, 70) /\ LT(avg_meditation, 40)
        THEN Result("Stressed", <<"High attention, low meditation indicates stress.">>,
                    <<"Take a break and practice deep breathing.">>, stress_level)
        ELSE IF LT(avg_attention, 40) /\ GT(avg_meditation, 70)
        THEN Result("Relaxed", <<"High meditation shows a relaxed state.">>,
                    <<"Maintain this calm or gently increase focus.">>, stress_level)
        ELSE IF GT(avg_attention, 60) /\ GT(avg_meditation, 60)
        THEN Result("Focused", <<"Balanced high levels - optimal flow state.">>,
                    <<"Keep going! Take breaks every 25-30 minutes.">>, stress_level)
        ELSE IF LT(avg_attention, 30) /\ LT(avg_meditation, 30)
        THEN Result("Tired", <<"Low levels indicate fatigue.">>,
                    <<"Rest or light exercise needed.">>, stress_level)
        ELSE Result("Neutral", <<"Balanced neutral state.">>,
                    <<"Shift to focus or relaxation as needed.">>, stress_level)

---------------------------------------------------------------------------
(* Text, the reply of the provider and its parsing *)

IsEmptyText(text) == \A i \in DOMAIN text : text[i] = ""

ReplyLine(prefix, text) == [prefix |-> prefix, text |-> text]

\* the lines a modelled reply is made of: a canonical and a non-canonical
\* mental state, the two other labelled fields, and an unlabelled line that
\* states a stress number
StressLine == ReplyLine("", "Stress Level: 99")
ReplyLines ==
    {ReplyLine("Mental State:", "Relaxed"),
     ReplyLine("Mental State:", "Anxious"),
     ReplyLine("Analysis:", "Beta activity dominates."),
     ReplyLine("Recommendation:", "Take a walk."),
     StressLine}

Replies == SeqsUpTo(ReplyLines, MaxLines)

\* the reply as one text.  Every modelled reply is shorter than 250
\* characters, so response[:250] is the whole reply.
RECURSIVE render(_)
render(lines) ==
    IF lines = << >> THEN << >>
    ELSE <<Head(lines).prefix, Head(lines).text>>
         \o (IF Tail(lines) = << >> THEN << >> ELSE <<"\n">>)
         \o render(Tail(lines))

\* what the gateway can do with one call
NoCall == [kind |-> "none", content |-> << >>]
Failures == {[kind |-> k, content |-> << >>] :
                k \in {"timeout", "transport", "status", "nopath"}}
Successes == {[kind |-> "ok", content |-> r] : r \in Replies}
Outcomes == Failures \cup Successes

\* call_groq_api: requests.post raises on a timeout or a transport error,
\* a status other than 200 raises Exception, a reply without
\* choices[0].message.content raises KeyError/IndexError; otherwise the
\* content is returned.
call_groq_api(o) ==
    IF o.kind = "ok" THEN [raised |-> FALSE, value |-> o.content]
    ELSE [raised |-> TRUE, value |-> << >>]

\* the loop over the lines of the reply (lines 139-146)
RECURSIVE parse_lines(_, _)
parse_lines(lines, acc) ==
    IF lines = << >> THEN acc
    ELSE LET line == Head(lines)
         IN  parse_lines(Tail(lines),
                 IF line.prefix = "Mental State:"
                 THEN [acc EXCEPT !.mental_state = line.text]
                 ELSE IF line.prefix = "Analysis:"
                 THEN [acc EXCEPT !.analysis = <<line.text>>]
                 ELSE IF line.prefix = "Recommendation:"
                 THEN [acc EXCEPT !.recommendation = <<line.text>>]
                 ELSE acc)

\* variant: the stress number of the reply is trusted
StressFromReply(response, avg_attention, avg_meditation) ==
    IF \E i \in DOMAIN response : response[i] = StressLine THEN 99
    ELSE calculate_stress_level(avg_attention, avg_meditation)

\* line 154: the stress level of an AI result
ai_stress_level(response, avg_attention, avg_meditation) ==
    calculate_stress_level(avg_attention, avg_meditation)

\* lines 133-161: the result built from the reply
parse_response(response, avg_attention, avg_meditation) ==
    LET p == parse_lines(response,
                 [mental_state |-> "Neutral", analysis |-> << >>,
                  recommendation |-> << >>])
        analysis == IF IsEmptyText(p.analysis) THEN render(response)
                    ELSE p.analysis
        recommendation ==
            IF IsEmptyText(p.recommendation)
            THEN <<"Continue monitoring your brainwaves regularly.">>
            ELSE p.recommendation
    IN  Result(p.mental_state, analysis, recommendation,
               ai_stress_level(response, avg_attention, avg_meditation))

\* variant: a failed call is parsed as an empty reply, no fallback
AnalyzeWithGroqNoFallback(attention_history, meditation_history, blink_history, o) ==
    LET avg_attention == mean(attention_history)
        avg_meditation == mean(meditation_history)
        r == call_groq_api(o)
    IN  [result |-> parse_response(r.value, avg_attention, avg_meditation),
         calls |-> <<"analyze_with_groq", "call_groq_api",
                     "calculate_stress_level">>]

analyze_with_groq(attention_history, meditation_history, blink_history, o) ==
    LET avg_attention == mean(attention_history)
        avg_meditation == mean(meditation_history)
        avg_blink == mean_or_zero(blink_history)
        r == call_groq_api(o)
    IN  IF ~r.raised
        THEN [result |-> parse_response(r.value, avg_attention, avg_meditation),
              calls |-> <<"analyze_with_groq", "call_groq_api",
                          "calculate_stress_level">>]
        ELSE [result |-> analyze_local_simple(avg_attention, avg_meditation,
                                              avg_blink),
              calls |-> <<"analyze_with_groq", "call_groq_api",
                          "analyze_local_simple", "calculate_stress_level">>]

---------------------------------------------------------------------------
(* Questions and the local knowledge base *)

\* str.lower() on the letters the modelled questions use
lower_char(c) ==
    CASE c = "H" -> "h"
      [] c = "F" -> "f"
      [] c = "S" -> "s"
      [] OTHER -> c

lower(q) == [i \in 1..Len(q) |-> lower_char(q[i])]

\* word in question
Contains(q, w) ==
    \E i \in 0..(Len(q) - Len(w)) : SubSeq(q, i + 1, i + Len(w)) = w

any_word_in(words, q) == \E w \in words : Contains(q, w)

GreetingWords == {<<"h","i">>, <<"h","e","l","l","o">>, <<"h","e","y">>}
AttentionWords == {<<"a","t","t","e","n","t","i","o","n">>, <<"f","o","c","u","s">>}
MeditationWords == {<<"m","e","d","i","t","a","t","i","o","n">>, <<"c","a","l","m">>,
                    <<"r","e","l","a","x">>}
StressWords == {<<"s","t","r","e","s","s">>, <<"s","t","r","e","s","s","e","d">>}
BlinkWords == {<<"b","l","i","n","k">>, <<"e","y","e">>}
UsageWords == {<<"h","o","w">>, <<"u","s","e">>, <<"w","o","r","k">>}
ImproveWords == {<<"i","m","p","r","o","v","e">>, <<"b","e","t","t","e","r">>}

answer_local(question) ==
    LET q == lower(question)
    IN  IF any_word_in(GreetingWords, q)
        THEN <<"Hello! I'm your EEG assistant.">>
        ELSE IF any_word_in(AttentionWords, q)
        THEN <<"Attention measures your mental focus (0-100%).">>
        ELSE IF any_word_in(MeditationWords, q)
        THEN <<"Meditation measures mental calmness (0-100%).">>
        ELSE IF any_word_in(StressWords, q)
        THEN <<"Stress is calculated from attention/meditation balance.">>
        ELSE IF any_word_in(BlinkWords, q)
        THEN <<"Blink strength (0-100%) measures eye blink intensity.">>
        ELSE IF any_word_in(UsageWords, q)
        THEN <<"Wear the EEG headset and this app reads your brainwaves in real-time.">>
        ELSE IF any_word_in(ImproveWords, q)
        THEN <<"To improve: Practice 10-15 mins daily.">>
        ELSE <<"That's interesting! I can tell you about: attention, meditation, stress, blinks, app usage, or mental training.">>

\* variant: a failed call answers with the error, no fallback
AnswerWithGroqNoFallback(question, o) ==
    LET r == call_groq_api(o)
    IN  [answer |-> IF r.raised THEN <<"Groq API error">> ELSE render(r.value),
         calls |-> <<"answer_with_groq", "call_groq_api">>]

answer_with_groq(question, o) ==
    LET r == call_groq_api(o)
    IN  IF ~r.raised
        THEN [answer |-> render(r.value),
              calls |-> <<"answer_with_groq", "call_groq_api">>]
        ELSE [answer |-> answer_local(question),
              calls |-> <<"answer_with_groq", "call_groq_api", "answer_local">>]

\* the questions of the modelled requests: empty, blank, and one or more per
\* keyword family ("this" holds "hi", "they blink" holds "hey" and "blink")
Questions ==
    {<< >>,
     <<" ", " ">>,
     <<"H","i">>,
     <<"t","h","i","s">>,
     <<"t","h","e","y"," ","b","l","i","n","k">>,
     <<"F","o","c","u","s">>,
     <<"c","a","l","m">>,
     <<"S","t","r","e","s","s">>,
     <<"e","y","e">>,
     <<"w","o","r","k">>,
     <<"b","e","t","t","e","r">>,
     <<"z","z","z">>}

---------------------------------------------------------------------------
(* The handlers *)

\* data.get(key, default)
get(d, key, default) == IF key \in DOMAIN d THEN d[key] ELSE default

\* a JSON object with the given keys, a key may be absent
JsonObjects(keys, values) == UNION {[ks -> values] : ks \in SUBSET keys}

\* variant: the placeholder key counts as a key
AiConfiguredAnyKey == USE_AI /\ GROQ_API_KEY # ""

\* USE_AI and GROQ_API_KEY and GROQ_API_KEY != 'gsk_free_key_placeholder'
ai_configured ==
    USE_AI /\ GROQ_API_KEY # "" /\ GROQ_API_KEY # "gsk_free_key_placeholder"

\* variant: only the attention series is validated
MissingAttentionOnly(attention_history, meditation_history) ==
    attention_history = << >>

\* not attention_history or not meditation_history
missing_eeg_data(attention_history, meditation_history) ==
    attention_history = << >> \/ meditation_history = << >>

Response(status, body, fns) == [status |-> status, body |-> body, calls |-> fns]

\* POST /api/analyze.  A series that is empty past the validation makes
\* sum(...) / len(...) raise ZeroDivisionError in the analysis, again in its
\* except clause and again in the handler's (line 74): the framework
\* answers 500.
analyze_eeg(d, o) ==
    IF DOMAIN d = {}
    THEN Response(400, [error |-> "No data provided"], << >>)
    ELSE LET attention_history == get(d, "attentionHistory", << >>)
             meditation_history == get(d, "meditationHistory", << >>)
             blink_history == get(d, "blinkHistory", << >>)
         IN  IF missing_eeg_data(attention_history, meditation_history)
             THEN Response(400, [error |-> "Missing EEG data"], << >>)
             ELSE IF attention_history = << >> \/ meditation_history = << >>
             THEN Response(500, [error |-> "Internal Server Error"],
                           <<IF ai_configured THEN "analyze_with_groq"
                             ELSE "analyze_local">>)
             ELSE IF ai_configured
             THEN LET r == analyze_with_groq(attention_history,
                                             meditation_history, blink_history, o)
                  IN  Response(200, r.result, r.calls)
             ELSE Response(200,
                           analyze_local(attention_history, meditation_history,
                                         blink_history),
                           <<"analyze_local", "calculate_variance",
                             "calculate_stress_level">>)

\* POST /api/question
ask_question(d, o) ==
    IF DOMAIN d = {}
    THEN Response(400, [error |-> "No data provided"], << >>)
    ELSE LET question == get(d, "question", << >>)
         IN  IF question = << >>
             THEN Response(400, [error |-> "No question provided"], << >>)
             ELSE IF ai_configured
             THEN LET r == answer_with_groq(question, o)
                  IN  Response(200, [answer |-> r.answer], r.calls)
             ELSE Response(200, [answer |-> answer_local(question)],
                           <<"answer_local">>)

---------------------------------------------------------------------------
(* The server: one request at a time is received, handled and answered *)

NoResponse == [status |-> 0, body |-> [none |-> TRUE]]

AnalyzeBodies ==
    {d \in JsonObjects({"attentionHistory", "meditationHistory", "blinkHistory"},
                       ReqSeries \cup BlinkSeries) :
        /\ "attentionHistory" \in DOMAIN d => d["attentionHistory"] \in ReqSeries
        /\ "meditationHistory" \in DOMAIN d => d["meditationHistory"] \in ReqSeries
        /\ "blinkHistory" \in DOMAIN d => d["blinkHistory"] \in BlinkSeries}

QuestionBodies == JsonObjects({"question"}, Questions)

Count(fns, f) == Cardinality({i \in DOMAIN fns : fns[i] = f})

Init ==
    /\ USE_AI \in BOOLEAN
    /\ GROQ_API_KEY \in {"", "gsk_free_key_placeholder", "gsk_live_key"}
    /\ pc = "idle"
    /\ route = "none"
    /\ data = << >>
    /\ outcome = NoCall
    /\ resp = NoResponse
    /\ calls = << >>
    /\ out_stress = -1
    /\ out_local = [mentalState |-> "-", analysis |-> << >>,
                    recommendation |-> << >>, stressLevel |-> -1]
    /\ out_simple = out_local

ReceiveAnalyze ==
    /\ pc = "idle"
    /\ \E d \in AnalyzeBodies : data' = d
    /\ route' = "/api/analyze"
    /\ pc' = "handling"
    /\ UNCHANGED <<USE_AI, GROQ_API_KEY, outcome, resp, calls,
                   out_stress, out_local, out_simple>>

ReceiveQuestion ==
    /\ pc = "idle"
    /\ \E d \in QuestionBodies : data' = d
    /\ route' = "/api/question"
    /\ pc' = "handling"
    /\ UNCHANGED <<USE_AI, GROQ_API_KEY, outcome, resp, calls,
                   out_stress, out_local, out_simple>>

Handle(r, o) ==
    /\ resp' = [status |-> r.status, body |-> r.body]
    /\ calls' = r.calls
    /\ outcome' = IF Count(r.calls, "call_groq_api") > 0 THEN o ELSE NoCall
    /\ pc' = "done"
    /\ UNCHANGED <<USE_AI, GROQ_API_KEY, route, data,
                   out_stress, out_local, out_simple>>

AnalyzeEeg ==
    /\ pc = "handling"
    /\ route = "/api/analyze"
    /\ \E o \in Outcomes : Handle(analyze_eeg(data, o), o)

AskQuestion ==
    /\ pc = "handling"
    /\ route = "/api/question"
    /\ \E o \in Outcomes : Handle(ask_question(data, o), o)

\* the response is sent; nothing of the request is kept
Reply ==
    /\ pc = "done"
    /\ pc' = "idle"
    /\ route' = "none"
    /\ data' = << >>
    /\ outcome' = NoCall
    /\ resp' = NoResponse
    /\ calls' = << >>
    /\ UNCHANGED <<USE_AI, GROQ_API_KEY, out_stress, out_local, out_simple>>

Next ==
    \/ ReceiveAnalyze
    \/ ReceiveQuestion
    \/ AnalyzeEeg
    \/ AskQuestion
    \/ Reply

Spec == Init /\ [][Next]_vars

---------------------------------------------------------------------------
(* Classifier runs: the three pure functions applied to given series *)

NotRun == [mentalState |-> "-", analysis |-> << >>, recommendation |-> << >>,
           stressLevel |-> -1]

EegData(att, med, blink) ==
    [attentionHistory |-> att, meditationHistory |-> med, blinkHistory |-> blink]

ClassifierInit ==
    /\ USE_AI = FALSE
    /\ GROQ_API_KEY = "gsk_free_key_placeholder"
    /\ pc = "classify"
    /\ route = "none"
    /\ \E att \in Series \ {<< >>}, med \in Series \ {<< >>}, blink \in BlinkSeries :
          data = EegData(att, med, blink)
    /\ outcome = NoCall
    /\ resp = NoResponse
    /\ calls = << >>
    /\ out_stress = -1
    /\ out_local = NotRun
    /\ out_simple = NotRun

RunCalculateStressLevel ==
    /\ pc = "classify"
    /\ out_stress = -1
    /\ out_stress' = calculate_stress_level(mean(data.attentionHistory),
                                            mean(data.meditationHistory))
    /\ UNCHANGED <<USE_AI, GROQ_API_KEY, pc, route, data, outcome, resp, calls,
                   out_local, out_simple>>

RunAnalyzeLocal ==
    /\ pc = "classify"
    /\ out_local = NotRun
    /\ out_local' = analyze_local(data.attentionHistory, data.meditationHistory,
                                  data.blinkHistory)
    /\ UNCHANGED <<USE_AI, GROQ_API_KEY, pc, route, data, outcome, resp, calls,
                   out_stress, out_simple>>

RunAnalyzeLocalSimple ==
    /\ pc = "classify"
    /\ out_simple = NotRun
    /\ out_simple' = analyze_local_simple(mean(data.attentionHistory),
                                          mean(data.meditationHistory),
                                          mean_or_zero(data.blinkHistory))
    /\ UNCHANGED <<USE_AI, GROQ_API_KEY, pc, route, data, outcome, resp, calls,
                   out_stress, out_local>>

ClassifierNext ==
    \/ RunCalculateStressLevel
    \/ RunAnalyzeLocal
    \/ RunAnalyzeLocalSimple

ClassifierSpec == ClassifierInit /\ [][ClassifierNext]_vars

---------------------------------------------------------------------------
(* The claims *)

\* the series of the request in hand, an absent key read as the empty series
ReqAttention == get(data, "attentionHistory", << >>)
ReqMeditation == get(data, "meditationHistory", << >>)
ReqBlink == get(data, "blinkHistory", << >>)
ReqQuestion == get(data, "question", << >>)

ValidAnalyze ==
    /\ pc = "done"
    /\ route = "/api/analyze"
    /\ ReqAttention # << >>
    /\ ReqMeditation # << >>

KeyConfigured == GROQ_API_KEY \notin {"", "gsk_free_key_placeholder"}

\* C1: when the call of the provider fails (timeout, transport error, status
\* other than 200, reply without the completion path), /api/analyze answers
\* 200 with the four-field result of the rule-based classifier for the
\* request's series, and /api/question answers 200 with answer_local of the
\* question.
C1_ProviderFailureFallsBack ==
    (pc = "done" /\ outcome \in Failures) =>
        /\ resp.status = 200
        /\ route = "/api/analyze" =>
              /\ DOMAIN resp.body =
                    {"mentalState", "analysis", "recommendation", "stressLevel"}
              /\ resp.body = analyze_local_simple(mean(ReqAttention),
                                                  mean(ReqMeditation),
                                                  mean_or_zero(ReqBlink))
        /\ route = "/api/question" =>
              resp.body = [answer |-> answer_local(ReqQuestion)]

C1_Witness ==
    /\ ValidAnalyze
    /\ USE_AI /\ KeyConfigured
    /\ outcome.kind = "timeout"
    /\ resp.status = 200
    /\ resp.body.mentalState = "Stressed"
    /\ resp.body.stressLevel = 75

\* C2: an /api/analyze request whose attentionHistory or meditationHistory
\* is missing or empty is answered 400 with an {error} body, whatever the
\* blink series and the AI configuration, and nothing is computed: no
\* analysis function is entered and the provider is not called.
C2_EmptySeriesRejected ==
    (/\ pc = "done"
     /\ route = "/api/analyze"
     /\ (ReqAttention = << >> \/ ReqMeditation = << >>)) =>
        /\ resp.status = 400
        /\ DOMAIN resp.body = {"error"}
        /\ calls = << >>
        /\ outcome = NoCall

C2_Witness ==
    /\ pc = "done"
    /\ route = "/api/analyze"
    /\ USE_AI /\ KeyConfigured
    /\ ReqAttention # << >>
    /\ "meditationHistory" \in DOMAIN data
    /\ data["meditationHistory"] = << >>
    /\ ReqBlink # << >>
    /\ resp.status = 400
    /\ calls = << >>

\* C3: for valid non-empty series, on every path, the result of /api/analyze
\* has a stressLevel in 0..100 and a mentalState that is a canonical label,
\* optionally with the offline qualifier; the text after 'Mental State:' is
\* never returned verbatim when it is no canonical label.
C3_CanonicalMentalState ==
    ValidAnalyze =>
        /\ resp.status = 200
        /\ resp.body.stressLevel \in 0..100
        /\ resp.body.mentalState \in MentalStateLabels \cup
              {"Stressed (Offline Mode)", "Relaxed (Offline Mode)",
               "Happy (Offline Mode)", "Sad (Offline Mode)",
               "Focused (Offline Mode)", "Tired (Offline Mode)",
               "Neutral (Offline Mode)"}

\* C4: calculate_stress_level depends on the two averages only, first match
\* of: attention > 70 and meditation < 40 gives 75; attention < 40 and
\* meditation > 70 gives 25; both > 60 gives 30; otherwise 50.  (80,20) gives
\* 75, (20,80) 25, (65,65) 30, (50,50) 50, and the boundary pairs (70,39),
\* (40,71), (60,61) give 50.
C4_StressTable ==
    out_stress # -1 =>
        LET sa == sum(data.attentionHistory)
            na == Len(data.attentionHistory)
            sm == sum(data.meditationHistory)
            nm == Len(data.meditationHistory)
            At(x, y) == sa = x * na /\ sm = y * nm
        IN  /\ out_stress =
                 IF sa > 70 * na /\ sm < 40 * nm THEN 75
                 ELSE IF sa < 40 * na /\ sm > 70 * nm THEN 25
                 ELSE IF sa > 60 * na /\ sm > 60 * nm THEN 30
                 ELSE 50
            /\ At(80, 20) => out_stress = 75
            /\ At(20, 80) => out_stress = 25
            /\ At(65, 65) => out_stress = 30
            /\ At(50, 50) => out_stress = 50
            /\ At(70, 39) => out_stress = 50
            /\ At(40, 71) => out_stress = 50
            /\ At(60, 61) => out_stress = 50

C4_Witness ==
    /\ out_stress = 50
    /\ data.attentionHistory = <<70>>
    /\ data.meditationHistory = <<39>>

\* the rule of the claimed precedence that the averages of the series in
\* hand match first, with the Tired rule at the given threshold
FirstRule(tired) ==
    LET a == mean(data.attentionHistory)
        m == mean(data.meditationHistory)
    IN  IF GT(a, 70) /\ LT(m, 40) THEN 1
        ELSE IF LT(a, 40) /\ GT(m, 70) THEN 2
        ELSE IF GT(a, 60) /\ GT(m, 60) THEN 3
        ELSE IF LT(a, tired) /\ LT(m, tired) THEN 4
        ELSE 0

\* max(xs) - min(xs) of the series in hand exceeds t
RangeExceeds(xs, t) == \E i, j \in DOMAIN xs : xs[i] - xs[j] > t

HighVariability(t) ==
    \/ RangeExceeds(data.attentionHistory, t)
    \/ RangeExceeds(data.meditationHistory, t)

\* the labels the claimed precedence allows a classifier whose Tired rule is
\* at the given threshold
AllowedLabels(tired) ==
    CASE FirstRule(tired) = 1 -> {"Stressed", "Focused"}
      [] FirstRule(tired) = 2 -> {"Relaxed"}
      [] FirstRule(tired) = 3 -> {"Happy", "Focused"}
      [] FirstRule(tired) = 4 -> {"Tired"}
      [] OTHER -> IF HighVariability(30) THEN MentalStateLabels
                  ELSE {"Neutral"}

\* C5 as claimed: the label is that of the first matching rule, the Tired
\* rule being both averages < 40 in analyze_local and both < 30 in the
\* simplified analyze_local_simple.
C5_PrecedenceAsClaimed ==
    /\ out_local # NotRun => out_local.mentalState \in AllowedLabels(40)
    /\ out_simple # NotRun => out_simple.mentalState \in AllowedLabels(30)

\* C5 as amended: the label is that of the first matching rule, in this
\* order: (1) attention > 70 and meditation < 40 gives Stressed; (2)
\* attention < 40 and meditation > 70 gives Relaxed; (3) both > 60 gives
\* Focused; (4) both < 30 gives Tired, in analyze_local as in
\* analyze_local_simple; otherwise, absent high variability, Neutral.  Every
\* input gets exactly one label and the choice of Stressed and of Focused is
\* the same for every input.
C5_Precedence ==
    \A out \in {out_local, out_simple} \ {NotRun} :
        /\ out.mentalState \in AllowedLabels(30)
        /\ out.mentalState \in MentalStateLabels
        /\ FirstRule(30) = 1 => out.mentalState = "Stressed"
        /\ FirstRule(30) = 3 => out.mentalState = "Focused"

C5_Witness ==
    /\ out_local # NotRun
    /\ out_simple # NotRun
    /\ data.attentionHistory = <<39>>
    /\ data.meditationHistory = <<39>>
    /\ out_local.mentalState = "Neutral"
    /\ out_simple.mentalState = "Neutral"

\* C6: when none of rules 1-4 matches and the range of the attention or of
\* the meditation series exceeds the high-variability threshold, the
\* classifier answers Stressed with stressLevel 85, not Neutral with 50.
C6_HighVariabilityStressed ==
    (/\ out_local # NotRun
     /\ FirstRule(40) = 0
     /\ HighVariability(40)) =>
        /\ out_local.mentalState = "Stressed"
        /\ out_local.stressLevel = 85

\* C7: per request the provider is called zero times when AI is disabled or
\* the key is unconfigured, and at most once otherwise; a failed call is not
\* retried, the fallback runs and the request completes with a response.
C7_AtMostOneCall ==
    pc = "done" =>
        /\ Count(calls, "call_groq_api") <= 1
        /\ (~USE_AI \/ ~KeyConfigured) => Count(calls, "call_groq_api") = 0
        /\ outcome \in Failures =>
              /\ Count(calls, "call_groq_api") = 1
              /\ resp.status = 200
              /\ Count(calls, "analyze_local_simple")
                    + Count(calls, "answer_local") = 1

C7_Witness ==
    /\ pc = "done"
    /\ route = "/api/question"
    /\ outcome.kind = "status"
    /\ Count(calls, "call_groq_api") = 1
    /\ Count(calls, "answer_local") = 1
    /\ resp.status = 200

\* C8: a question that is missing, empty or only whitespace is rejected with
\* 400, and neither the provider nor the FAQ responder is invoked.
C8_BlankQuestionRejected ==
    (/\ pc = "done"
     /\ route = "/api/question"
     /\ \A i \in DOMAIN ReqQuestion : ReqQuestion[i] = " ") =>
        /\ resp.status = 400
        /\ calls = << >>

\* C9: the stressLevel of an /api/analyze result is the same whatever the
\* provider returns (any reply, also one stating a stress number, or a
\* failure): it is calculate_stress_level of the averages of the request.
C9_StressIndependentOfReply ==
    ValidAnalyze =>
        /\ resp.status = 200
        /\ resp.body.stressLevel =
              calculate_stress_level(mean(ReqAttention), mean(ReqMeditation))

C9_Witness ==
    /\ ValidAnalyze
    /\ outcome.kind = "ok"
    /\ \E i \in DOMAIN outcome.content : outcome.content[i] = StressLine
    /\ resp.body.stressLevel = 75

\* C10: analyze_local on the series and analyze_local_simple on the averages
\* of the same series return the same mentalState and the same stressLevel.
C10_OfflineClassifiersAgree ==
    (out_local # NotRun /\ out_simple # NotRun) =>
        /\ out_local.mentalState = out_simple.mentalState
        /\ out_local.stressLevel = out_simple.stressLevel

C10_Witness ==
    /\ out_local # NotRun
    /\ out_simple # NotRun
    /\ data.attentionHistory = <<20, 80>>
    /\ data.meditationHistory = <<61>>
    /\ out_local.mentalState = "Neutral"
    /\ out_simple.stressLevel = 50

=============================================================================
